---------------------------- MODULE Spec2Model ----------------------------
(***************************************************************************)
(* Session timekeeping and reward core of the RP tracker bot (main.py).    *)
(*                                                                         *)
(* The store is the three tables of ensure_schema: sessions, participants  *)
(* and keys.  Every handler runs on one asyncio event loop and uses the    *)
(* blocking psycopg driver, so a handler that does not await between its   *)
(* read and its writes is one atomic step.  time.time() is modelled by     *)
(* clock: the value of the latest read; a later read returns the same or a *)
(* later instant (the Clock Source contract), and two reads inside one     *)
(* handler may differ.                                                     *)
(***************************************************************************)
EXTENDS Integers, FiniteSets, Sequences, TLC

VARIABLES
    sessions,      \* table sessions: message_id -> row
    participants,  \* table participants: <<message_id, user_id>> -> row
    keys,          \* table keys (one guild): user_id -> row
    clock,         \* the latest value time.time() returned
    response,      \* the latest message a handler sent
    phase          \* history: per participant, progress through Leave .. Resume

vars == <<sessions, participants, keys, clock, response, phase>>

-----------------------------------------------------------------------------
(* Bounds *)

MaxUnits == 3
MaxKeys == 2
MaxSeconds == 6400
MaxLedger == 10

(* Program constants *)

RewardGrace == 900
SecondsPerHour == 3600

STOPPED == 0
RUNNING == 1
PAUSED == 2

-----------------------------------------------------------------------------
(* Value domains *)

NULL == 0 - 1

\* The instants the clock is sampled at: quarter hours.
TimeUnit == RewardGrace
Times == {k * TimeUnit : k \in 0..MaxUnits}

\* time.time(): a read never returns less than the previous read.
ClockReads(after) == {t \in Times : t >= after}

Mids == {1}
Uids == {1, 2}
Pids == Mids \X Uids

Max0(x) == IF x > 0 THEN x ELSE 0

\* A row that is not in the table, with the defaults get_session and the
\* COALESCEs of the queries give it. A participant row also carries its row
\* lock: "free", "held" by an open transaction that has written it, or
\* "waited" when a second transaction is blocked on it.
NoSession == [posted |-> FALSE, state |-> STOPPED, started_at |-> NULL, run_seconds |-> 0]

NoParticipant ==
    [joined |-> FALSE, character |-> "", level |-> 0, seconds |-> 0,
     last_tick |-> NULL, capped |-> 0, xp_dip |-> 0, gp_dip |-> 0, lock |-> "free"]

NoKeys == [current |-> 0, lifetime |-> 0]

NoLines == [u \in {} |-> 0]

Reply(msg) == [msg |-> msg, mid |-> 0, lines |-> NoLines]

-----------------------------------------------------------------------------
(* Reward rules *)

\* Faulty variant: whole hours with no 45-minute threshold.
reward_hours_NoGrace(seconds) == Max0(seconds) \div SecondsPerHour

\* reward_hours: whole hours with a 45-minute threshold.
reward_hours(seconds) == (Max0(seconds) + RewardGrace) \div SecondsPerHour

\* Faulty variant: every tier begins one level late.
xp_per_hour_for_level_LateTiers(level) ==
    IF 3 <= level /\ level <= 5 THEN 300
    ELSE IF 6 <= level /\ level <= 9 THEN 600
    ELSE IF 10 <= level /\ level <= 13 THEN 800
    ELSE IF 14 <= level /\ level <= 17 THEN 1000
    ELSE IF 18 <= level /\ level <= 20 THEN 1200
    ELSE 0

xp_per_hour_for_level(level) ==
    IF 2 <= level /\ level <= 4 THEN 300
    ELSE IF 5 <= level /\ level <= 8 THEN 600
    ELSE IF 9 <= level /\ level <= 12 THEN 800
    ELSE IF 13 <= level /\ level <= 16 THEN 1000
    ELSE IF 17 <= level /\ level <= 20 THEN 1200
    ELSE 0

gp_per_hour_for_level(level) == Max0(level) * 10

\* Faulty variant: the currency of a capped row is not doubled.
RewardLine_GpDipUncappedOnly(p) ==
    LET hrs == reward_hours(p.seconds)
        gp0 == gp_per_hour_for_level(p.level) * hrs
        xp0 == xp_per_hour_for_level(p.level) * hrs
        xp  == IF p.xp_dip # 0 THEN xp0 * 2 ELSE xp0
    IN  IF p.capped # 0
        THEN [character |-> p.character, level |-> p.level, hrs |-> hrs,
              kind |-> "keys", amount |-> hrs, gp |-> gp0]
        ELSE [character |-> p.character, level |-> p.level, hrs |-> hrs,
              kind |-> "xp", amount |-> xp,
              gp |-> IF p.gp_dip # 0 THEN gp0 * 2 ELSE gp0]

\* One line of the rewards message, from a row of list_participants.
RewardLine(p) ==
    LET hrs == reward_hours(p.seconds)
        gp0 == gp_per_hour_for_level(p.level) * hrs
        gp  == IF p.gp_dip # 0 THEN gp0 * 2 ELSE gp0
        xp0 == xp_per_hour_for_level(p.level) * hrs
        xp  == IF p.xp_dip # 0 THEN xp0 * 2 ELSE xp0
    IN  IF p.capped # 0
        THEN [character |-> p.character, level |-> p.level, hrs |-> hrs,
              kind |-> "keys", amount |-> hrs, gp |-> gp]
        ELSE [character |-> p.character, level |-> p.level, hrs |-> hrs,
              kind |-> "xp", amount |-> xp, gp |-> gp]

\* list_participants and the loop of end_session_and_post_rewards over it.
RewardLines(parts, m) ==
    [u \in {v \in Uids : parts[<<m, v>>].joined} |-> RewardLine(parts[<<m, u>>])]

-----------------------------------------------------------------------------
(* Key ledger *)

keys_add(row, amount) ==
    IF amount <= 0 THEN row
    ELSE [current |-> row.current + amount, lifetime |-> row.lifetime + amount]

\* Faulty variant: the debit is not clamped at zero.
keys_sub_Unclamped(row, amount) ==
    IF amount <= 0 THEN row
    ELSE [current |-> row.current - amount, lifetime |-> row.lifetime]

\* keys_sub: a missing row is inserted as (0, 0), then
\* current = GREATEST(current - amount, 0); lifetime is not written.
keys_sub(row, amount) ==
    IF amount <= 0 THEN row
    ELSE [current |-> Max0(row.current - amount), lifetime |-> row.lifetime]

\* Faulty variant: the experience multiplier doubles the keys credited.
CreditKeys_XpDipDoubles(ledger, parts, m) ==
    [u \in DOMAIN ledger |->
        IF parts[<<m, u>>].joined /\ parts[<<m, u>>].capped # 0
        THEN keys_add(ledger[u],
                      IF parts[<<m, u>>].xp_dip # 0
                      THEN 2 * reward_hours(parts[<<m, u>>].seconds)
                      ELSE reward_hours(parts[<<m, u>>].seconds))
        ELSE ledger[u]]

\* The keys_add calls of end_session_and_post_rewards: one per capped row.
CreditKeys(ledger, parts, m) ==
    [u \in DOMAIN ledger |->
        IF parts[<<m, u>>].joined /\ parts[<<m, u>>].capped # 0
        THEN keys_add(ledger[u], reward_hours(parts[<<m, u>>].seconds))
        ELSE ledger[u]]

-----------------------------------------------------------------------------
(* Store helpers *)

get_session(m) == sessions[m]

\* Faulty variant: the tick adds the delta and leaves last_tick where it was.
TickRow_KeepsLastTick(p, now) ==
    [p EXCEPT !.seconds = p.seconds + Max0(now - p.last_tick)]

\* Faulty variant: the settled delta is truncated to whole minutes.
TickRow_WholeMinutes(p, now) ==
    [p EXCEPT !.seconds = p.seconds + (Max0(now - p.last_tick) \div 60) * 60,
              !.last_tick = now]

\* One row of the UPDATE in tick_running_sessions.
TickRow(p, now) ==
    [p EXCEPT !.seconds = p.seconds + Max0(now - p.last_tick), !.last_tick = now]

\* tick_running_sessions for a given reading of the clock: every row with
\* last_tick NOT NULL of every session with state=1.
TickParticipants(sess, parts, now) ==
    [pid \in DOMAIN parts |->
        IF /\ sess[pid[1]].posted
           /\ sess[pid[1]].state = RUNNING
           /\ parts[pid].joined
           /\ parts[pid].last_tick # NULL
        THEN TickRow(parts[pid], now)
        ELSE parts[pid]]

\* Faulty variant: only the rows that are already ticking are armed.
ArmRoster_OnlyArmed(parts, m, now) ==
    [pid \in DOMAIN parts |->
        IF pid[1] = m /\ parts[pid].joined /\ parts[pid].last_tick # NULL
        THEN [parts[pid] EXCEPT !.last_tick = now]
        ELSE parts[pid]]

\* UPDATE participants SET last_tick=now WHERE message_id=m
ArmRoster(parts, m, now) ==
    [pid \in DOMAIN parts |->
        IF pid[1] = m /\ parts[pid].joined
        THEN [parts[pid] EXCEPT !.last_tick = now]
        ELSE parts[pid]]

\* Faulty variant: the UPDATE matches no row.
DisarmRoster_NoRow(parts, m) == parts

\* UPDATE participants SET last_tick=NULL WHERE message_id=m
DisarmRoster(parts, m) ==
    [pid \in DOMAIN parts |->
        IF pid[1] = m /\ parts[pid].joined
        THEN [parts[pid] EXCEPT !.last_tick = NULL]
        ELSE parts[pid]]

\* Faulty variant: Start and Resume begin the total anew.
RunningRow_ResetsRun(s, now) ==
    [posted |-> TRUE, state |-> RUNNING, started_at |-> now, run_seconds |-> 0]

\* The session row Start and Resume write.
RunningRow(s, now) ==
    [posted |-> TRUE, state |-> RUNNING, started_at |-> now, run_seconds |-> s.run_seconds]

\* Faulty variant: Pause leaves started_at set.
PausedRow_KeepsStartedAt(s, now) ==
    [posted |-> TRUE, state |-> PAUSED, started_at |-> s.started_at,
     run_seconds |-> s.run_seconds + Max0(now - s.started_at)]

\* Faulty variant: Pause does not bank the running segment.
PausedRow_DropsSegment(s, now) ==
    [posted |-> TRUE, state |-> PAUSED, started_at |-> NULL, run_seconds |-> s.run_seconds]

\* The session row Pause writes.
PausedRow(s, now) ==
    [posted |-> TRUE, state |-> PAUSED, started_at |-> NULL,
     run_seconds |-> s.run_seconds + Max0(now - s.started_at)]

\* Faulty variant: End adds its total to the stored one instead of replacing it.
StoppedRow_AddsRun(s, run) ==
    [posted |-> TRUE, state |-> STOPPED, started_at |-> NULL,
     run_seconds |-> s.run_seconds + run]

\* Faulty variant: End keeps the stored run_seconds and drops the segment
\* that was running.
StoppedRow_DropsSegment(s, run) ==
    [posted |-> TRUE, state |-> STOPPED, started_at |-> NULL, run_seconds |-> s.run_seconds]

\* The session row End writes, given the run_seconds it computed.
StoppedRow(s, run) ==
    [posted |-> TRUE, state |-> STOPPED, started_at |-> NULL, run_seconds |-> run]

-----------------------------------------------------------------------------
(* History: phase[pid] follows one participant through the sequence        *)
(* Leave while Running .. Pause .. Resume with no Rejoin or Join between:  *)
(* "left" from the Leave until the Resume, "rearmed" during the run that   *)
(* this Resume begins.  Start and End begin anew.                          *)

PhaseAfterLeave(old, state) ==
    IF state = RUNNING \/ old = "left" THEN "left" ELSE "none"

PhaseAfterResume(old) == IF old = "left" THEN "rearmed" ELSE old

PhaseAfterPause(old) == IF old = "rearmed" THEN "none" ELSE old

PhaseNone(old) == "none"

PhaseStep(step, old) ==
    CASE step = "pause"  -> PhaseAfterPause(old)
      [] step = "resume" -> PhaseAfterResume(old)
      [] OTHER           -> PhaseNone(old)

\* phase after the step has acted on the participants of session m.
PhaseOf(m, step) ==
    [pid \in DOMAIN phase |-> IF pid[1] = m THEN PhaseStep(step, phase[pid]) ELSE phase[pid]]

-----------------------------------------------------------------------------
(* Sign-in form *)

\* int(text) of the texts the model enters; a text outside it raises ValueError.
IntOf == ("0" :> 0) @@ ("3" :> 3) @@ ("10" :> 10) @@ ("20" :> 20) @@ ("21" :> 21)

\* str.strip() of the names the model enters.
Strip(text) == IF text = " " THEN "" ELSE text

\* JoinModal._is_yes, on lower-case text.
is_yes(text) ==
    LET raw == IF text = "" THEN "no" ELSE text
    IN  IF raw \in {"y", "yes", "true", "1", "dip"} THEN 1 ELSE 0

Form(name, level, capped, xp_dip, gp_dip) ==
    [name |-> name, level |-> level, capped |-> capped, xp_dip |-> xp_dip, gp_dip |-> gp_dip]

\* The forms submitted: two valid characters and one of each invalid kind.
Forms ==
    { Form("Aria", "10", "", "no", "no"),
      Form("Bren", "20", "yes", "dip", "yes"),
      Form("Aria", "0", "", "", ""),
      Form("Aria", "21", "", "", ""),
      Form("Aria", "ten", "", "", ""),
      Form(" ", "10", "", "", "") }

-----------------------------------------------------------------------------
(* Handlers *)

\* /rpbegin: posts a new tracker message m and inserts its session row.
rpbegin(m) ==
    /\ ~sessions[m].posted
    /\ sessions' = [sessions EXCEPT ![m] =
                       [posted |-> TRUE, state |-> STOPPED, started_at |-> NULL, run_seconds |-> 0]]
    /\ response' = Reply("Opening a new Guild Ledger")
    /\ UNCHANGED <<participants, keys, clock, phase>>

\* The periodic tick of ticker_loop, for the value time.time() returns.
ticker_loop_at(now) ==
    /\ clock' = now
    /\ participants' = TickParticipants(sessions, participants, now)
    /\ UNCHANGED <<sessions, keys, response, phase>>

\* The periodic tick of ticker_loop.
ticker_loop == \E now \in ClockReads(clock) : ticker_loop_at(now)

\* Faulty variant: a level outside 1..20 is clamped into the range and the
\* form is accepted.
join_bad_level_Clamps(m, u, form) ==
    /\ form.level \in DOMAIN IntOf
    /\ ~(1 <= IntOf[form.level] /\ IntOf[form.level] <= 20)
    /\ participants' = [participants EXCEPT ![<<m, u>>] =
                           [joined |-> TRUE,
                            character |-> Strip(form.name),
                            level |-> IF IntOf[form.level] < 1 THEN 1 ELSE 20,
                            seconds |-> @.seconds,
                            last_tick |-> @.last_tick,
                            capped |-> is_yes(form.capped),
                            xp_dip |-> is_yes(form.xp_dip),
                            gp_dip |-> is_yes(form.gp_dip), lock |-> "free"]]
    /\ response' = Reply("Signed in")
    /\ UNCHANGED <<sessions, keys, clock, phase>>

\* JoinModal.on_submit, rejected by the level check.
join_bad_level(m, u, form) ==
    /\ \/ form.level \notin DOMAIN IntOf
       \/ form.level \in DOMAIN IntOf /\ ~(1 <= IntOf[form.level] /\ IntOf[form.level] <= 20)
    /\ response' = Reply("Level must be a number between 1 and 20.")
    /\ UNCHANGED <<sessions, participants, keys, clock, phase>>

\* JoinModal.on_submit, rejected by the name check.
join_bad_name(m, u, form) ==
    /\ form.level \in DOMAIN IntOf
    /\ 1 <= IntOf[form.level] /\ IntOf[form.level] <= 20
    /\ Strip(form.name) = ""
    /\ response' = Reply("Name can't be empty.")
    /\ UNCHANGED <<sessions, participants, keys, clock, phase>>

\* Faulty variant: the upsert arms the row whatever the session's state.
JoinedRow_AlwaysArmed(old, form, state, now) ==
    [joined |-> TRUE,
     character |-> Strip(form.name),
     level |-> IntOf[form.level],
     seconds |-> IF old.joined THEN old.seconds ELSE 0,
     last_tick |-> now,
     capped |-> is_yes(form.capped),
     xp_dip |-> is_yes(form.xp_dip),
     gp_dip |-> is_yes(form.gp_dip),
     lock |-> old.lock]

\* Faulty variant: an edit starts the row's seconds anew.
JoinedRow_ResetsSeconds(old, form, state, now) ==
    [joined |-> TRUE,
     character |-> Strip(form.name),
     level |-> IntOf[form.level],
     seconds |-> 0,
     last_tick |-> IF state = RUNNING THEN now ELSE NULL,
     capped |-> is_yes(form.capped),
     xp_dip |-> is_yes(form.xp_dip),
     gp_dip |-> is_yes(form.gp_dip),
     lock |-> old.lock]

\* Faulty variant: the upsert never arms the row.
JoinedRow_NeverArmed(old, form, state, now) ==
    [joined |-> TRUE,
     character |-> Strip(form.name),
     level |-> IntOf[form.level],
     seconds |-> IF old.joined THEN old.seconds ELSE 0,
     last_tick |-> NULL,
     capped |-> is_yes(form.capped),
     xp_dip |-> is_yes(form.xp_dip),
     gp_dip |-> is_yes(form.gp_dip),
     lock |-> old.lock]

\* The row JoinModal.on_submit upserts.
JoinedRow(old, form, state, now) ==
    [joined |-> TRUE,
     character |-> Strip(form.name),
     level |-> IntOf[form.level],
     seconds |-> IF old.joined THEN old.seconds ELSE 0,
     last_tick |-> IF state = RUNNING THEN now ELSE NULL,
     capped |-> is_yes(form.capped),
     xp_dip |-> is_yes(form.xp_dip),
     gp_dip |-> is_yes(form.gp_dip),
     lock |-> old.lock]

\* JoinModal.on_submit, accepted, for the value time.time() returns.
join_ok_at(m, u, form, now) ==
    /\ form.level \in DOMAIN IntOf
    /\ 1 <= IntOf[form.level] /\ IntOf[form.level] <= 20
    /\ Strip(form.name) # ""
    /\ clock' = now
    /\ participants' = [participants EXCEPT ![<<m, u>>] =
                           JoinedRow(@, form, get_session(m).state, now)]
    /\ phase' = [phase EXCEPT ![<<m, u>>] = "none"]
    /\ response' = Reply("Signed in")
    /\ UNCHANGED <<sessions, keys>>

\* JoinModal.on_submit, accepted.
join_ok(m, u, form) == \E now \in ClockReads(clock) : join_ok_at(m, u, form, now)

\* RPView.leave_cb by a user with no row, for the value time.time() returns.
leave_not_joined_at(m, u, now) ==
    /\ ~participants[<<m, u>>].joined
    /\ clock' = now
    /\ response' = Reply("You haven't joined this RP yet.")
    /\ UNCHANGED <<sessions, participants, keys, phase>>

\* RPView.leave_cb by a user with no row.
leave_not_joined(m, u) == \E now \in ClockReads(clock) : leave_not_joined_at(m, u, now)

\* Faulty variant: Leave settles the row and lets it go on accruing.
LeftRow_StaysArmed(p, now) ==
    [p EXCEPT !.seconds = IF p.last_tick # NULL
                          THEN p.seconds + Max0(now - p.last_tick)
                          ELSE p.seconds,
              !.last_tick = IF p.last_tick # NULL THEN now ELSE NULL]

\* Faulty variant: the settled delta is not floored at zero.
LeftRow_NoFloor(p, now) ==
    [p EXCEPT !.seconds = IF p.last_tick # NULL
                          THEN p.seconds + (now - p.last_tick)
                          ELSE p.seconds,
              !.last_tick = NULL]

\* The row RPView.leave_cb writes.
LeftRow(p, now) ==
    [p EXCEPT !.seconds = IF p.last_tick # NULL
                          THEN p.seconds + Max0(now - p.last_tick)
                          ELSE p.seconds,
              !.last_tick = NULL]

\* RPView.leave_cb by a joined user, for the value time.time() returns.
leave_ok_at(m, u, now) ==
    /\ participants[<<m, u>>].joined
    /\ clock' = now
    /\ participants' = [participants EXCEPT ![<<m, u>>] = LeftRow(@, now)]
    /\ phase' = [phase EXCEPT ![<<m, u>>] = PhaseAfterLeave(@, get_session(m).state)]
    /\ response' = Reply("You've left (timer paused for you only).")
    /\ UNCHANGED <<sessions, keys>>

\* RPView.leave_cb by a joined user.
leave_ok(m, u) == \E now \in ClockReads(clock) : leave_ok_at(m, u, now)

\* RPView.rejoin_cb by a user with no row.
rejoin_not_joined(m, u) ==
    /\ ~participants[<<m, u>>].joined
    /\ response' = Reply("You haven't joined yet.")
    /\ UNCHANGED <<sessions, participants, keys, clock, phase>>

\* Faulty variant: Rejoin arms the row whatever the session's state.
rejoin_idle_Arms(m, u) ==
    /\ participants[<<m, u>>].joined
    /\ get_session(m).state # RUNNING
    /\ participants' = [participants EXCEPT ![<<m, u>>].last_tick = clock]
    /\ phase' = [phase EXCEPT ![<<m, u>>] = "none"]
    /\ response' = Reply("You're marked present, but the session isn't running.")
    /\ UNCHANGED <<sessions, keys, clock>>

\* RPView.rejoin_cb while the session is not running.
rejoin_idle(m, u) ==
    /\ participants[<<m, u>>].joined
    /\ get_session(m).state # RUNNING
    /\ participants' = [participants EXCEPT ![<<m, u>>].last_tick = NULL]
    /\ phase' = [phase EXCEPT ![<<m, u>>] = "none"]
    /\ response' = Reply("You're marked present, but the session isn't running.")
    /\ UNCHANGED <<sessions, keys, clock>>

\* RPView.rejoin_cb while the session is running, for the value time.time()
\* returns.
rejoin_running_at(m, u, now) ==
    /\ participants[<<m, u>>].joined
    /\ get_session(m).state = RUNNING
    /\ clock' = now
    /\ participants' = [participants EXCEPT ![<<m, u>>].last_tick = now]
    /\ phase' = [phase EXCEPT ![<<m, u>>] = "none"]
    /\ response' = Reply("You're back in. Your timer is running again.")
    /\ UNCHANGED <<sessions, keys>>

\* RPView.rejoin_cb while the session is running.
rejoin_running(m, u) == \E now \in ClockReads(clock) : rejoin_running_at(m, u, now)

\* Faulty variant: Start on a running session arms the whole roster again.
start_already_running_Rearms(m) ==
    /\ get_session(m).state = RUNNING
    /\ participants' = ArmRoster(participants, m, clock)
    /\ response' = Reply("Already running.")
    /\ UNCHANGED <<sessions, keys, clock, phase>>

\* RPView.start_cb on a running session.
start_already_running(m) ==
    /\ get_session(m).state = RUNNING
    /\ response' = Reply("Already running.")
    /\ UNCHANGED <<sessions, participants, keys, clock, phase>>

\* RPView.start_cb on a session that is not running, for the value
\* time.time() returns.
start_ok_at(m, now) ==
    /\ get_session(m).state # RUNNING
    /\ clock' = now
    /\ sessions' = [sessions EXCEPT ![m] = RunningRow(get_session(m), now)]
    /\ participants' = ArmRoster(participants, m, now)
    /\ phase' = PhaseOf(m, "none")
    /\ response' = Reply("Session started. The guild clock is running.")
    /\ UNCHANGED keys

\* RPView.start_cb on a session that is not running.
start_ok(m) == \E now \in ClockReads(clock) : start_ok_at(m, now)

\* RPView.pause_cb on a session that is not running.
pause_not_running(m) ==
    /\ get_session(m).state # RUNNING \/ get_session(m).started_at = NULL
    /\ response' = Reply("Not currently running.")
    /\ UNCHANGED <<sessions, participants, keys, clock, phase>>

\* RPView.pause_cb on a running session, for the value time.time() returns
\* in tick_running_sessions and the value it returns in the handler.
pause_ok_at(m, tick_now, now) ==
    /\ get_session(m).state = RUNNING
    /\ get_session(m).started_at # NULL
    /\ clock' = now
    /\ sessions' = [sessions EXCEPT ![m] = PausedRow(get_session(m), now)]
    /\ participants' =
           DisarmRoster(TickParticipants(sessions, participants, tick_now), m)
    /\ phase' = PhaseOf(m, "pause")
    /\ response' = Reply("Session paused. Quills down.")
    /\ UNCHANGED keys

\* RPView.pause_cb on a running session: tick_running_sessions reads the clock,
\* then the handler reads it again for the session row.
pause_ok(m) ==
    \E tick_now \in ClockReads(clock) : \E now \in ClockReads(tick_now) :
        pause_ok_at(m, tick_now, now)

\* RPView.resume_cb on a session that is not paused.
resume_not_paused(m) ==
    /\ get_session(m).state # PAUSED
    /\ response' = Reply("Not currently paused.")
    /\ UNCHANGED <<sessions, participants, keys, clock, phase>>

\* Faulty variant: Resume accepts every session that is not running, as Start does.
resume_ok_AsStart(m) ==
    /\ get_session(m).state # RUNNING
    /\ \E now \in ClockReads(clock) :
        /\ clock' = now
        /\ sessions' = [sessions EXCEPT ![m] = RunningRow(get_session(m), now)]
        /\ participants' = ArmRoster(participants, m, now)
    /\ phase' = PhaseOf(m, "resume")
    /\ response' = Reply("Session resumed. The guild clock continues.")
    /\ UNCHANGED keys

\* RPView.resume_cb on a paused session, for the value time.time() returns.
resume_ok_at(m, now) ==
    /\ get_session(m).state = PAUSED
    /\ clock' = now
    /\ sessions' = [sessions EXCEPT ![m] = RunningRow(get_session(m), now)]
    /\ participants' = ArmRoster(participants, m, now)
    /\ phase' = PhaseOf(m, "resume")
    /\ response' = Reply("Session resumed. The guild clock continues.")
    /\ UNCHANGED keys

\* RPView.resume_cb on a paused session.
resume_ok(m) == \E now \in ClockReads(clock) : resume_ok_at(m, now)

\* The message end_session_and_post_rewards sends.
RewardsMessage(parts, m) ==
    [msg |-> "Guild Ledger Closed - Rewards Issued", mid |-> m, lines |-> RewardLines(parts, m)]

\* end_session_and_post_rewards on an id get_session does not locate.
end_not_found(m) ==
    /\ ~get_session(m).posted
    /\ response' = Reply("Could not locate this session in the ledger.")
    /\ UNCHANGED <<sessions, participants, keys, clock, phase>>

\* end_session_and_post_rewards on a running session, for the value
\* time.time() returns in the final tick and the value it returns in the
\* handler.
end_running_at(m, tick_now, now) ==
    /\ get_session(m).posted
    /\ get_session(m).state = RUNNING
    /\ get_session(m).started_at # NULL
    /\ LET s == get_session(m)
           run == s.run_seconds + Max0(now - s.started_at)
           parts == DisarmRoster(TickParticipants(sessions, participants, tick_now), m)
       IN  /\ clock' = now
           /\ sessions' = [sessions EXCEPT ![m] = StoppedRow(s, run)]
           /\ participants' = parts
           /\ keys' = CreditKeys(keys, parts, m)
           /\ response' = RewardsMessage(parts, m)
    /\ \A u \in DOMAIN keys : keys'[u].lifetime <= MaxKeys
    /\ phase' = PhaseOf(m, "none")

\* end_session_and_post_rewards on a running session: the final tick reads the
\* clock, then the handler reads it again for run_seconds.
end_running(m) ==
    \E tick_now \in ClockReads(clock) : \E now \in ClockReads(tick_now) :
        end_running_at(m, tick_now, now)

\* end_session_and_post_rewards on a session that is not running.
end_idle(m) ==
    /\ get_session(m).posted
    /\ ~(get_session(m).state = RUNNING /\ get_session(m).started_at # NULL)
    /\ LET s == get_session(m)
           parts == DisarmRoster(participants, m)
       IN  /\ sessions' = [sessions EXCEPT ![m] = StoppedRow(s, s.run_seconds)]
           /\ participants' = parts
           /\ keys' = CreditKeys(keys, parts, m)
           /\ response' = RewardsMessage(parts, m)
    /\ \A u \in DOMAIN keys : keys'[u].lifetime <= MaxKeys
    /\ phase' = PhaseOf(m, "none")
    /\ UNCHANGED clock

-----------------------------------------------------------------------------
(* The bot: one tracker message, two users *)

Init ==
    /\ sessions = [m \in Mids |-> NoSession]
    /\ participants = [pid \in Pids |-> NoParticipant]
    /\ keys = [u \in Uids |-> NoKeys]
    /\ clock = 0
    /\ response = Reply("")
    /\ phase = [pid \in Pids |-> "none"]

\* The trackers rpbegin has posted: only these carry buttons.
Posted == {m \in Mids : sessions[m].posted}

Next ==
    \/ \E m \in Mids : rpbegin(m)
    \/ ticker_loop
    \/ \E m \in Posted : start_already_running(m)
    \/ \E m \in Posted : start_ok(m)
    \/ \E m \in Posted : pause_not_running(m)
    \/ \E m \in Posted : pause_ok(m)
    \/ \E m \in Posted : resume_not_paused(m)
    \/ \E m \in Posted : resume_ok(m)
    \/ \E m \in Posted : end_running(m)
    \/ \E m \in Posted : end_idle(m)
    \/ \E m \in Posted, u \in Uids : leave_not_joined(m, u)
    \/ \E m \in Posted, u \in Uids : leave_ok(m, u)
    \/ \E m \in Posted, u \in Uids : rejoin_not_joined(m, u)
    \/ \E m \in Posted, u \in Uids : rejoin_idle(m, u)
    \/ \E m \in Posted, u \in Uids : rejoin_running(m, u)
    \/ \E m \in Posted, u \in Uids, form \in Forms : join_bad_level(m, u, form)
    \/ \E m \in Posted, u \in Uids, form \in Forms : join_bad_name(m, u, form)
    \/ \E m \in Posted, u \in Uids, form \in Forms : join_ok(m, u, form)

Spec == Init /\ [][Next]_vars

-----------------------------------------------------------------------------
(* The roster that signs in before the first Start and then only watches:  *)
(* Join is open while the session has never run and only to a user with no *)
(* row; after that only Start, Pause, Resume, End and the tick act.        *)

join_before_start(m, u, form) ==
    /\ get_session(m).state = STOPPED
    /\ get_session(m).run_seconds = 0
    /\ ~participants[<<m, u>>].joined
    /\ join_ok(m, u, form)

NextAccrual ==
    \/ \E m \in Mids : rpbegin(m)
    \/ ticker_loop
    \/ \E m \in Posted, u \in Uids, form \in Forms : join_before_start(m, u, form)
    \/ \E m \in Posted : start_already_running(m)
    \/ \E m \in Posted : start_ok(m)
    \/ \E m \in Posted : pause_not_running(m)
    \/ \E m \in Posted : pause_ok(m)
    \/ \E m \in Posted : resume_not_paused(m)
    \/ \E m \in Posted : resume_ok(m)
    \/ \E m \in Posted : end_running(m)
    \/ \E m \in Posted : end_idle(m)

SpecAccrual == Init /\ [][NextAccrual]_vars

-----------------------------------------------------------------------------
(* Buttons whose tracker has no row in the sessions table.  A view stays   *)
(* registered with the bot (bot.add_view) whatever the table holds, and    *)
(* its handlers take the message id from the view, so every handler can be *)
(* applied to an id get_session finds no row for.                          *)

NextUnknown ==
    \/ \E m \in Mids : rpbegin(m)
    \/ ticker_loop
    \/ \E m \in Mids : start_already_running(m)
    \/ \E m \in Mids : start_ok(m)
    \/ \E m \in Mids : pause_not_running(m)
    \/ \E m \in Mids : pause_ok(m)
    \/ \E m \in Mids : resume_not_paused(m)
    \/ \E m \in Mids : resume_ok(m)
    \/ \E m \in Mids : end_not_found(m)
    \/ \E m \in Mids : end_running(m)
    \/ \E m \in Mids : end_idle(m)
    \/ \E m \in Mids, u \in Uids : leave_not_joined(m, u)
    \/ \E m \in Mids, u \in Uids : leave_ok(m, u)
    \/ \E m \in Mids, u \in Uids : rejoin_not_joined(m, u)
    \/ \E m \in Mids, u \in Uids : rejoin_idle(m, u)
    \/ \E m \in Mids, u \in Uids : rejoin_running(m, u)
    \/ \E m \in Mids, u \in Uids, form \in Forms : join_bad_level(m, u, form)
    \/ \E m \in Mids, u \in Uids, form \in Forms : join_bad_name(m, u, form)
    \/ \E m \in Mids, u \in Uids, form \in Forms : join_ok(m, u, form)

SpecUnknown == Init /\ [][NextUnknown]_vars

-----------------------------------------------------------------------------
(* The reward rules at End: a closed ledger with one participant, whose    *)
(* seconds, level and flags are drawn, and End applied to it.  Every       *)
(* number of seconds up to MaxSeconds is drawn for one character, and the  *)
(* seconds on either side of each reward boundary for every level and      *)
(* every combination of flags.                                             *)

BoundarySeconds == {0, 2699, 2700, 6299, 6300, 7200}
Levels == 1..20

InitRewards ==
    \E s \in (0..MaxSeconds) \cup BoundarySeconds, level \in Levels, capped \in {0, 1}, xp_dip \in {0, 1}, gp_dip \in {0, 1} :
        /\ s \in BoundarySeconds \/ (level = 10 /\ capped = 0 /\ xp_dip = 0 /\ gp_dip = 0)
        /\ sessions = [m \in Mids |->
                          [posted |-> TRUE, state |-> STOPPED, started_at |-> NULL,
                           run_seconds |-> s]]
        /\ participants = [pid \in Pids |->
                              IF pid[2] = 1
                              THEN [joined |-> TRUE, character |-> "Aria", level |-> level,
                                    seconds |-> s, last_tick |-> NULL, capped |-> capped,
                                    xp_dip |-> xp_dip, gp_dip |-> gp_dip, lock |-> "free"]
                              ELSE NoParticipant]
        /\ keys = [u \in Uids |-> NoKeys]
        /\ clock = s
        /\ response = Reply("")
        /\ phase = [pid \in Pids |-> "none"]

NextRewards == \E m \in Posted : end_idle(m)

SpecRewards == InitRewards /\ [][NextRewards]_vars

-----------------------------------------------------------------------------
(* Properties *)

Row(m, u) == participants[<<m, u>>]
Roster(m) == {u \in Uids : Row(m, u).joined}
Armed(m, u) == Row(m, u).joined /\ Row(m, u).last_tick # NULL
RewardsSent(m) == response.msg = RewardsMessage(participants, m).msg /\ response.mid = m

\* The messages each handler answers with.
JoinReplies ==
    {"Signed in", "Level must be a number between 1 and 20.", "Name can't be empty."}
LeaveReplies ==
    {"You haven't joined this RP yet.", "You've left (timer paused for you only)."}
RejoinReplies ==
    {"You haven't joined yet.", "You're marked present, but the session isn't running.",
     "You're back in. Your timer is running again."}
StartReplies == {"Already running.", "Session started. The guild clock is running."}
PauseReplies == {"Not currently running.", "Session paused. Quills down."}

\* C1: started_at is non-null exactly when the session's state is Running.
C1_StartedAtIffRunning ==
    \A m \in Mids : (sessions[m].started_at # NULL) <=> (sessions[m].state = RUNNING)

\* C1 witness: a session running its second segment.
C1_Witness ==
    \E m \in Mids :
        /\ sessions[m].state = RUNNING
        /\ sessions[m].started_at # NULL
        /\ sessions[m].run_seconds > 0

\* C2: last_tick is non-null only while the owning session is Running.
C2_ArmedOnlyWhileRunning ==
    \A m \in Mids, u \in Uids :
        Row(m, u).last_tick # NULL => sessions[m].state = RUNNING

\* C2 witness: a participant with last_tick null beside an armed one, in a
\* Running session.
C2_Witness ==
    \E m \in Mids, u, v \in Uids :
        /\ sessions[m].state = RUNNING
        /\ Row(m, u).joined /\ Row(m, u).last_tick = NULL
        /\ Armed(m, v)

\* C3: a participant who joined before the first Start and never left has
\* seconds equal to the session's run_seconds whenever the session is not
\* Running.
C3_AccruedEqualsRunSeconds ==
    \A m \in Mids, u \in Uids :
        (Row(m, u).joined /\ sessions[m].state # RUNNING)
            => Row(m, u).seconds = sessions[m].run_seconds

\* C4: a participant who left while the session was Running keeps their
\* seconds until the session, paused since, is resumed; that Resume sets their
\* last_tick to its reading of the clock, and every tick of the run it begins
\* adds the time since their last_tick.
C4_ResumeRearmsLeaver ==
    [][\A m \in Mids, u \in Uids :
          /\ phase[<<m, u>>] = "left" => Row(m, u)'.seconds = Row(m, u).seconds
          /\ (phase[<<m, u>>] = "left" /\ phase'[<<m, u>>] = "rearmed")
                => /\ sessions[m].state = PAUSED
                   /\ sessions'[m].state = RUNNING
                   /\ Row(m, u)'.last_tick = clock'
          /\ phase[<<m, u>>] = "rearmed" => Armed(m, u)
          /\ (phase[<<m, u>>] = "rearmed" /\ ticker_loop)
                => /\ Row(m, u)'.seconds = Row(m, u).seconds + (clock' - Row(m, u).last_tick)
                   /\ Row(m, u)'.last_tick = clock'
      ]_vars

\* C4 witness: a participant re-armed by Resume after their Leave whose
\* seconds a later tick has raised above what they had at the Leave.
C4_Witness ==
    \E m \in Mids, u \in Uids :
        /\ phase[<<m, u>>] = "rearmed"
        /\ Row(m, u).last_tick > sessions[m].started_at
        /\ Row(m, u).seconds > 0

\* C5: a second tick with the same reading of the clock changes no row: for
\* every reading the clock can give, the tick of the ticked table is the
\* ticked table.
C5_TickIdempotent ==
    \A now \in ClockReads(clock) :
        LET once == TickParticipants(sessions, participants, now)
        IN  TickParticipants(sessions, once, now) = once

\* C5 witness: a reading of the clock for which the first tick adds time.
C5_Witness ==
    \E now \in ClockReads(clock), m \in Mids, u \in Uids :
        /\ Armed(m, u)
        /\ TickParticipants(sessions, participants, now)[<<m, u>>].seconds > Row(m, u).seconds

\* C6: Start on a Stopped or Paused session sets state Running and started_at
\* to the clock reading, keeps run_seconds, sets every participant's last_tick
\* to that reading and keeps every participant's seconds.
C6_StartEffect ==
    [][\A m \in Mids :
          start_ok(m) =>
              /\ sessions'[m].state = RUNNING
              /\ sessions'[m].started_at = clock'
              /\ sessions'[m].run_seconds = sessions[m].run_seconds
              /\ \A u \in Roster(m) :
                    /\ Row(m, u)'.last_tick = clock'
                    /\ Row(m, u)'.seconds = Row(m, u).seconds
      ]_vars

\* C6 witness: Start has just run on a session with time already on it and a
\* participant with time already accrued.
C6_Witness ==
    \E m \in Mids, u \in Uids :
        /\ response = Reply("Session started. The guild clock is running.")
        /\ sessions[m].state = RUNNING
        /\ sessions[m].run_seconds > 0
        /\ Row(m, u).seconds > 0
        /\ Row(m, u).last_tick = sessions[m].started_at

\* C7: Pause on a Running session, for one reading now of the clock, leaves
\* the session Paused with started_at null and run_seconds raised by
\* now - started_at, every last_tick null, and every armed participant's
\* seconds raised by now - last_tick.
C7_PauseEffect ==
    [][\A m \in Mids :
          pause_ok(m) =>
              /\ sessions'[m].state = PAUSED
              /\ sessions'[m].started_at = NULL
              /\ sessions'[m].run_seconds =
                     sessions[m].run_seconds + (clock' - sessions[m].started_at)
              /\ \A u \in Roster(m) :
                    /\ Row(m, u)'.last_tick = NULL
                    /\ Armed(m, u) =>
                          Row(m, u)'.seconds = Row(m, u).seconds + (clock' - Row(m, u).last_tick)
      ]_vars

\* C8: End on a posted session leaves it Stopped with started_at null and
\* every last_tick null; from Running, run_seconds grows by the live segment
\* up to End's reading of the clock and every armed participant is settled up
\* to the final tick's reading; from Paused or Stopped, run_seconds and all
\* seconds stay as they are.
C8_EndEffect ==
    [][\A m \in Mids :
          (end_running(m) \/ end_idle(m)) =>
              /\ sessions'[m].state = STOPPED
              /\ sessions'[m].started_at = NULL
              /\ \A u \in Roster(m) : Row(m, u)'.last_tick = NULL
              /\ IF sessions[m].state = RUNNING
                 THEN /\ sessions'[m].run_seconds =
                            sessions[m].run_seconds + (clock' - sessions[m].started_at)
                      /\ \E t \in Times :
                            /\ clock <= t /\ t <= clock'
                            /\ \A u \in Roster(m) :
                                  Row(m, u)'.seconds =
                                      IF Armed(m, u)
                                      THEN Row(m, u).seconds + (t - Row(m, u).last_tick)
                                      ELSE Row(m, u).seconds
                 ELSE /\ sessions'[m].run_seconds = sessions[m].run_seconds
                      /\ \A u \in Roster(m) : Row(m, u)'.seconds = Row(m, u).seconds
      ]_vars

\* C8 witness: End has just closed a session that ran, with a participant
\* who accrued time and one who had left.
C8_Witness ==
    \E m \in Mids, u, v \in Uids :
        /\ RewardsSent(m)
        /\ sessions[m].state = STOPPED
        /\ sessions[m].run_seconds > 0
        /\ Row(m, u).seconds = sessions[m].run_seconds
        /\ Row(m, v).joined /\ Row(m, v).seconds < sessions[m].run_seconds

\* C9: End on a Stopped session changes neither the session row nor any
\* participant row; when the latest message is that session's own rewards
\* message (the previous End), End sends the same rewards message again.
C9_EndIdempotent ==
    [][\A m \in Mids :
          ((end_running(m) \/ end_idle(m)) /\ sessions[m].state = STOPPED) =>
              /\ sessions' = sessions
              /\ participants' = participants
              /\ RewardsSent(m) => response' = response
      ]_vars

\* C9 witness: a second End has been applied: the ledger of a capped
\* participant holds twice the hours of the rewards message.
C9_Witness ==
    \E m \in Mids, u \in Uids :
        /\ RewardsSent(m)
        /\ u \in DOMAIN response.lines
        /\ response.lines[u].kind = "keys"
        /\ response.lines[u].hrs >= 1
        /\ keys[u].lifetime = 2 * response.lines[u].hrs
        /\ Row(m, u).seconds = sessions[m].run_seconds

\* C10 as stated: Resume on a Stopped or a Paused session leaves it Running
\* with every participant armed.
C10_ResumeAsStart ==
    [][\A m \in Mids :
          ((resume_ok(m) \/ resume_not_paused(m)) /\ sessions[m].state \in {STOPPED, PAUSED}) =>
              /\ sessions'[m].state = RUNNING
              /\ \A u \in Roster(m) : Row(m, u)'.last_tick = clock'
      ]_vars

\* C10 amended: Resume on a Paused session does what Start does (Running,
\* started_at the clock reading, run_seconds kept, every participant armed at
\* that reading, seconds kept); on a Stopped session it changes no row and
\* answers that the session is not paused.
C10_ResumeOnlyFromPaused ==
    [][\A m \in Mids :
          /\ resume_ok(m) =>
                /\ sessions[m].state = PAUSED
                /\ sessions'[m].state = RUNNING
                /\ sessions'[m].started_at = clock'
                /\ sessions'[m].run_seconds = sessions[m].run_seconds
                /\ \A u \in Roster(m) :
                      /\ Row(m, u)'.last_tick = clock'
                      /\ Row(m, u)'.seconds = Row(m, u).seconds
          /\ (resume_not_paused(m) /\ sessions[m].state = STOPPED) =>
                /\ sessions' = sessions
                /\ participants' = participants
                /\ response' = Reply("Not currently paused.")
      ]_vars

\* C10 witness: Resume has just been refused on a Stopped session that has a
\* roster and has run before.
C10_Witness ==
    \E m \in Mids, u \in Uids :
        /\ response = Reply("Not currently paused.")
        /\ sessions[m].state = STOPPED
        /\ sessions[m].run_seconds > 0
        /\ Row(m, u).joined

\* C11: Start on a Running session, Pause on a session that is not Running,
\* and Leave or Rejoin by a user with no participant row change no session
\* row, no participant row (a leaver's null last_tick included) and no row
\* of the key ledger.
C11_IllegalTransitionsNoOp ==
    [][/\ response'.msg \in StartReplies \cup PauseReplies =>
             \A m \in Mids :
                 \/ (start_already_running(m) \/ start_ok(m)) /\ sessions[m].state = RUNNING
                 \/ (pause_not_running(m) \/ pause_ok(m)) /\ sessions[m].state # RUNNING
                 => UNCHANGED <<sessions, participants, keys>>
       /\ response'.msg \in LeaveReplies \cup RejoinReplies =>
             \A m \in Mids, u \in Uids :
                 /\ ~Row(m, u).joined
                 /\ \/ leave_not_joined(m, u) \/ leave_ok(m, u)
                    \/ rejoin_not_joined(m, u) \/ rejoin_idle(m, u) \/ rejoin_running(m, u)
                 => UNCHANGED <<sessions, participants, keys>>
      ]_vars

\* C11 witness: Start has been refused on a Running session in which one
\* participant has left and another is accruing.
C11_Witness ==
    \E m \in Mids, u, v \in Uids :
        /\ response.msg = "Already running."
        /\ sessions[m].state = RUNNING
        /\ Row(m, u).joined /\ Row(m, u).last_tick = NULL /\ Row(m, u).seconds > 0
        /\ Armed(m, v)

\* C12: Start, Pause, Resume, End, Leave and Rejoin applied to an id with no
\* row in sessions leave the sessions table as it is, and End answers that
\* it could not locate the session and changes no table.
C12_UnknownNeverCreates ==
    [][\A m \in Mids :
          ~sessions[m].posted =>
              /\ \/ start_already_running(m) \/ start_ok(m)
                 \/ pause_not_running(m) \/ pause_ok(m)
                 \/ resume_not_paused(m) \/ resume_ok(m)
                 \/ end_not_found(m) \/ end_running(m) \/ end_idle(m)
                 \/ \E u \in Uids :
                        \/ leave_not_joined(m, u) \/ leave_ok(m, u)
                        \/ rejoin_not_joined(m, u) \/ rejoin_idle(m, u)
                        \/ rejoin_running(m, u)
                 => sessions' = sessions
              /\ (end_not_found(m) \/ end_running(m) \/ end_idle(m)) =>
                    /\ response'.msg = "Could not locate this session in the ledger."
                    /\ UNCHANGED <<sessions, participants, keys>>
      ]_vars

\* C13: Leave by a joined participant adds the time since last_tick to their
\* seconds if they were armed and nothing otherwise, clears their last_tick,
\* and changes no session row and no other participant row; while a row's
\* last_tick is null no step changes its seconds, and only Rejoin, Join,
\* Start or Resume make it non-null again.
C13_LeaveSettlesAndFreezes ==
    [][/\ response'.msg \in LeaveReplies =>
             \A m \in Mids, u \in Uids :
                 (Row(m, u).joined /\ (leave_ok(m, u) \/ leave_not_joined(m, u))) =>
                     /\ Row(m, u)'.seconds =
                            IF Armed(m, u)
                            THEN Row(m, u).seconds + (clock' - Row(m, u).last_tick)
                            ELSE Row(m, u).seconds
                     /\ Row(m, u)'.last_tick = NULL
                     /\ sessions' = sessions
                     /\ \A pid \in Pids \ {<<m, u>>} : participants'[pid] = participants[pid]
       /\ participants' # participants =>
             \A m \in Mids, u \in Uids :
                 (Row(m, u).joined /\ Row(m, u).last_tick = NULL) =>
                     /\ Row(m, u)'.seconds = Row(m, u).seconds
                     /\ Row(m, u)'.last_tick # NULL =>
                            \/ rejoin_running(m, u)
                            \/ \E form \in Forms : join_ok(m, u, form)
                            \/ start_ok(m)
                            \/ resume_ok(m)
      ]_vars

\* C13 witness: a participant who accrued time has just left a Running
\* session in which another participant goes on accruing.
C13_Witness ==
    \E m \in Mids, u, v \in Uids :
        /\ response.msg = "You've left (timer paused for you only)."
        /\ sessions[m].state = RUNNING
        /\ Row(m, u).joined /\ Row(m, u).last_tick = NULL /\ Row(m, u).seconds > 0
        /\ Armed(m, v) /\ Row(m, v).last_tick < clock

\* C14: Rejoin by a joined participant sets their last_tick to the clock
\* reading when the session is Running and leaves it null when the session
\* is Paused or Stopped; it changes neither their seconds nor any session
\* row.
C14_RejoinArmsOnlyWhileRunning ==
    [][\A m \in Mids, u \in Uids :
          /\ response'.msg \in RejoinReplies
          /\ Row(m, u).joined
          /\ rejoin_not_joined(m, u) \/ rejoin_idle(m, u) \/ rejoin_running(m, u)
          => /\ Row(m, u)'.last_tick =
                    IF sessions[m].state = RUNNING THEN clock' ELSE NULL
             /\ Row(m, u)'.seconds = Row(m, u).seconds
             /\ sessions' = sessions
      ]_vars

\* C14 witness: a participant with time on the books has just rejoined a
\* Running session and is armed at the clock reading.
C14_Witness ==
    \E m \in Mids, u \in Uids :
        /\ response.msg = "You're back in. Your timer is running again."
        /\ sessions[m].state = RUNNING
        /\ sessions[m].run_seconds > 0
        /\ Row(m, u).seconds > 0
        /\ Row(m, u).last_tick = clock

\* C15: Join never resets or lowers seconds: a Join by a user who has a row
\* stores the seconds the row held, in every session state, and a Join by a
\* user with no row stores 0.
C15_JoinKeepsSeconds ==
    [][response'.msg = "Signed in" =>
          \A m \in Mids, u \in Uids :
              (\E form \in Forms : join_ok(m, u, form)) =>
                  Row(m, u)'.seconds = IF Row(m, u).joined THEN Row(m, u).seconds ELSE 0
      ]_vars

\* C15 witness: a participant with time on the books has just signed in
\* again as another character, while the session runs.
C15_Witness ==
    \E m \in Mids, u \in Uids :
        /\ response.msg = "Signed in"
        /\ sessions[m].state = RUNNING
        /\ Row(m, u).seconds > 0
        /\ Row(m, u).character = "Bren"
        /\ Row(m, u).last_tick = clock
        /\ \A v \in Uids \ {u} : ~Row(m, v).joined

\* C16: Join while the session is Running sets last_tick to the clock
\* reading, and a tick then adds the time since last_tick to the seconds of
\* every armed row; Join while the session is Stopped or Paused leaves
\* last_tick null, and a row with last_tick null gains nothing from a tick.
C16_JoinArmsWhileRunning ==
    [][/\ response'.msg = "Signed in" =>
             \A m \in Mids, u \in Uids :
                 (\E form \in Forms : join_ok(m, u, form)) =>
                     Row(m, u)'.last_tick =
                         IF sessions[m].state = RUNNING THEN clock' ELSE NULL
       /\ (response' = response /\ sessions' = sessions /\ ticker_loop) =>
             \A m \in Mids : \A u \in Roster(m) :
                 Row(m, u)'.seconds =
                     IF Armed(m, u)
                     THEN Row(m, u).seconds + (clock' - Row(m, u).last_tick)
                     ELSE Row(m, u).seconds
      ]_vars

\* C16 witness: a participant who signed in while the session was running,
\* and never before, has accrued time from a tick.
C16_Witness ==
    \E m \in Mids, u \in Uids :
        /\ sessions[m].state = RUNNING
        /\ sessions[m].run_seconds = 0
        /\ Armed(m, u)
        /\ Row(m, u).seconds > 0
        /\ Row(m, u).seconds < clock - sessions[m].started_at

\* The level texts that denote an integer of 1..20, and the forms that carry
\* one of them and a name that is not blank.
LevelTexts ==
    {"1", "2", "3", "4", "5", "6", "7", "8", "9", "10",
     "11", "12", "13", "14", "15", "16", "17", "18", "19", "20"}
ValidForm(form) == form.level \in LevelTexts /\ form.name \notin {"", " "}

\* C17: a Join whose level is not an integer of 1..20 (0 and 21 included) or
\* whose name is empty is answered with an error message and changes no
\* session row, no participant row and no row of the key ledger: a step
\* either is such a rejection or is no Join of an invalid form.
C17_InvalidJoinRejected ==
    [][response'.msg \in JoinReplies =>
          \/ /\ response'.msg \in JoinReplies \ {"Signed in"}
             /\ UNCHANGED <<sessions, participants, keys>>
          \/ \A m \in Mids, u \in Uids, form \in Forms :
                ~ValidForm(form) =>
                    /\ ~join_bad_level(m, u, form)
                    /\ ~join_bad_name(m, u, form)
                    /\ ~join_ok(m, u, form)
      ]_vars

\* C17 witness: a sign-in has just been rejected for its level while the
\* session runs with a participant on the roster.
C17_Witness ==
    \E m \in Mids, u \in Uids :
        /\ response.msg = "Level must be a number between 1 and 20."
        /\ sessions[m].state = RUNNING
        /\ Armed(m, u)
        /\ Row(m, u).level = 20
        /\ \A v \in Uids \ {u} : ~Row(m, v).joined

\* C18: the hours of a rewards line are floor((seconds + 900) / 3600): for
\* seconds s and hours h, 3600 h <= s + 900 < 3600 (h + 1); h is 0 below
\* 2700, 1 from 2700 to 6299 and 2 at 6300, and never less than the hours of
\* s - 1.
C18_RewardHoursFloor ==
    \A m \in Mids :
        RewardsSent(m) =>
            \A u \in DOMAIN response.lines :
                LET s == Row(m, u).seconds
                    h == response.lines[u].hrs
                IN  /\ 3600 * h <= s + 900 /\ s + 900 < 3600 * (h + 1)
                    /\ s < 2700 => h = 0
                    /\ (2700 <= s /\ s <= 6299) => h = 1
                    /\ s = 6300 => h = 2
                    /\ s > 0 => h >= reward_hours(s - 1)

\* C18 witness: End has rewarded exactly 45 minutes with one hour.
C18_Witness ==
    \E m \in Mids, u \in Uids :
        /\ RewardsSent(m)
        /\ u \in DOMAIN response.lines
        /\ Row(m, u).seconds = 2700
        /\ response.lines[u].hrs = 1

\* C19: the currency of a rewards line is level * 10 * hours, twice that
\* exactly when gp_dip is set, whatever capped and xp_dip are.
C19_CurrencyReward ==
    \A m \in Mids :
        RewardsSent(m) =>
            \A u \in DOMAIN response.lines :
                LET p == Row(m, u)
                    h == (p.seconds + 900) \div 3600
                IN  response.lines[u].gp =
                        IF p.gp_dip = 1 THEN 2 * (p.level * 10 * h) ELSE p.level * 10 * h

\* C19 witness: a capped level-20 character with both multipliers has been
\* paid 800 for two hours.
C19_Witness ==
    \E m \in Mids, u \in Uids :
        /\ RewardsSent(m)
        /\ u \in DOMAIN response.lines
        /\ Row(m, u).capped = 1 /\ Row(m, u).xp_dip = 1 /\ Row(m, u).gp_dip = 1
        /\ Row(m, u).level = 20
        /\ response.lines[u].hrs = 2
        /\ response.lines[u].gp = 800

\* The experience per hour the reward table gives a level.
RateOfLevel(level) ==
    CASE level \in 2..4   -> 300
      [] level \in 5..8   -> 600
      [] level \in 9..12  -> 800
      [] level \in 13..16 -> 1000
      [] level \in 17..20 -> 1200
      [] OTHER            -> 0

\* C20: the experience of the rewards line of a participant who is not
\* capped is the rate of their level times the hours, twice that exactly
\* when xp_dip is set.
C20_ExperienceReward ==
    \A m \in Mids :
        RewardsSent(m) =>
            \A u \in DOMAIN response.lines :
                LET p == Row(m, u)
                    h == (p.seconds + 900) \div 3600
                IN  p.capped = 0 =>
                        /\ response.lines[u].kind = "xp"
                        /\ response.lines[u].amount =
                               IF p.xp_dip = 1
                               THEN 2 * (RateOfLevel(p.level) * h)
                               ELSE RateOfLevel(p.level) * h

\* C20 witness: a level-17 character with the experience multiplier, not
\* capped, has earned 2400 for one hour.
C20_Witness ==
    \E m \in Mids, u \in Uids :
        /\ RewardsSent(m)
        /\ u \in DOMAIN response.lines
        /\ Row(m, u).capped = 0 /\ Row(m, u).xp_dip = 1
        /\ Row(m, u).level = 17
        /\ response.lines[u].hrs = 1
        /\ response.lines[u].amount = 2400

\* C21: End gives a capped participant keys in place of experience: the
\* line shows the hours as keys, and current and lifetime of the user's
\* ledger row each grow by exactly the hours, whatever xp_dip is; the ledger
\* row of a user who is not capped, or not on the roster, stays as it is.
C21_CappedEarnsKeys ==
    [][\A m \in Mids :
          end_idle(m) =>
              \A u \in Uids :
                  LET p == Row(m, u)
                      h == (p.seconds + 900) \div 3600
                  IN  IF p.joined /\ p.capped = 1
                      THEN /\ response'.lines[u].kind = "keys"
                           /\ response'.lines[u].amount = h
                           /\ keys'[u].current = keys[u].current + h
                           /\ keys'[u].lifetime = keys[u].lifetime + h
                      ELSE keys'[u] = keys[u]
      ]_vars

\* C21 witness: a capped level-20 character with the currency multiplier
\* and 7200 seconds has been given 2 hours, 2 keys and 800 currency.
C21_Witness ==
    \E m \in Mids, u \in Uids :
        /\ RewardsSent(m)
        /\ u \in DOMAIN response.lines
        /\ Row(m, u).level = 20 /\ Row(m, u).capped = 1 /\ Row(m, u).gp_dip = 1
        /\ Row(m, u).xp_dip = 1
        /\ Row(m, u).seconds = 7200
        /\ response.lines[u].hrs = 2
        /\ response.lines[u].kind = "keys" /\ response.lines[u].amount = 2
        /\ response.lines[u].gp = 800
        /\ keys[u] = [current |-> 2, lifetime |-> 2]

-----------------------------------------------------------------------------
(* The worked trace: one participant from sign-in to rewards *)

\* The instants at which the clock is read along the trace.
TraceTimes == {t \in 0..2701 : t % 300 = 0 \/ t = 2701}

\* The sign-in of the traced participant: level 10, not capped, no multipliers.
TraceForm == Form("Aria", "10", "", "no", "no")

\* User 1 signs in at t=0 on the Stopped session.
trace_join ==
    /\ ~Row(1, 1).joined
    /\ get_session(1).state = STOPPED
    /\ clock = 0
    /\ join_ok_at(1, 1, TraceForm, 0)

\* Start at t=0, once user 1 has signed in.
trace_start ==
    /\ Row(1, 1).joined
    /\ get_session(1).state = STOPPED
    /\ clock = 0
    /\ start_ok_at(1, 0)

\* Any tick at any later instant of the trace.
trace_tick == \E now \in TraceTimes : now >= clock /\ ticker_loop_at(now)

\* Another user signs in or leaves at any instant of the trace.
trace_other_join ==
    \E now \in TraceTimes, form \in Forms : now >= clock /\ join_ok_at(1, 2, form, now)

trace_other_leave == \E now \in TraceTimes : now >= clock /\ leave_ok_at(1, 2, now)

\* End at t=2701.
trace_end == end_running_at(1, 2701, 2701)

NextTrace ==
    \/ rpbegin(1)
    \/ trace_join
    \/ trace_start
    \/ trace_tick
    \/ get_session(1).posted /\ trace_other_join
    \/ get_session(1).posted /\ trace_other_leave
    \/ trace_end

SpecTrace == Init /\ [][NextTrace]_vars

\* C22: Join (level 10, not capped, no multipliers) at t=0 on a Stopped
\* session, Start at t=0, any ticks in between and End at t=2701 give the
\* participant accrued_seconds 2701, rewarded_hours 1, experience 800 and
\* currency 100.
C22_WorkedTrace ==
    [][trace_end =>
          /\ participants'[<<1, 1>>].seconds = 2701
          /\ participants'[<<1, 1>>].last_tick = NULL
          /\ response'.lines[1].hrs = 1
          /\ response'.lines[1].kind = "xp"
          /\ response'.lines[1].amount = 800
          /\ response'.lines[1].gp = 100
      ]_vars

C22_Witness ==
    /\ RewardsSent(1)
    /\ clock = 2701
    /\ Row(1, 1).level = 10 /\ Row(1, 1).capped = 0
    /\ Row(1, 1).seconds = 2701
    /\ response.lines[1].hrs = 1
    /\ response.lines[1].amount = 800
    /\ response.lines[1].gp = 100

-----------------------------------------------------------------------------
(* The key ledger commands *)

\* The keys qrecords_cmd awards to whoever runs it.
DmKeys == 10

\* int(amount.strip()) of key_cmd on the amount texts submitted; a text
\* outside the domain raises.
AmountOf ==
    [t \in {"+1", " 5 ", "0", "-2", "-20"} |->
        CASE t = "+1" -> 1
          [] t = " 5 " -> 5
          [] t = "0" -> 0
          [] t = "-2" -> 0 - 2
          [] t = "-20" -> 0 - 20]

\* The amount texts submitted to !key.
Amounts == DOMAIN AmountOf \cup {"three"}

\* abs of key_cmd.
abs(n) == IF n < 0 THEN 0 - n ELSE n

\* keys_get and build_key_embed: the balance shown to the user.
KeyReply(msg, u, delta, row) ==
    [msg |-> msg, mid |-> 0,
     lines |-> [x \in {u} |-> [delta |-> delta, current |-> row.current,
                               lifetime |-> row.lifetime]]]

\* !key with no amount: shows the balance.
key_show(u) ==
    /\ response' = KeyReply("Keyring", u, 0, keys[u])
    /\ UNCHANGED <<sessions, participants, keys, clock, phase>>

\* !key with an amount int() cannot read.
key_usage(u, amount) ==
    /\ amount \notin DOMAIN AmountOf
    /\ response' = Reply("Usage: !key or !key +3 or !key -2")
    /\ UNCHANGED <<sessions, participants, keys, clock, phase>>

\* !key with an amount of zero.
key_nothing(u, amount) ==
    /\ amount \in DOMAIN AmountOf
    /\ AmountOf[amount] = 0
    /\ response' = Reply("That would change nothing.")
    /\ UNCHANGED <<sessions, participants, keys, clock, phase>>

\* !key with a positive amount: keys_add, then the ledger text and embed.
key_credit(u, amount) ==
    /\ amount \in DOMAIN AmountOf
    /\ AmountOf[amount] > 0
    /\ keys' = [keys EXCEPT ![u] = keys_add(@, AmountOf[amount])]
    /\ keys'[u].lifetime <= MaxLedger
    /\ response' = KeyReply("Keys Earned", u, AmountOf[amount], keys'[u])
    /\ UNCHANGED <<sessions, participants, clock, phase>>

\* !key with a negative amount: keys_sub(abs(delta)), then the ledger text and
\* embed.
key_debit(u, amount) ==
    /\ amount \in DOMAIN AmountOf
    /\ AmountOf[amount] < 0
    /\ keys' = [keys EXCEPT ![u] = keys_sub(@, abs(AmountOf[amount]))]
    /\ response' = KeyReply("Keys Earned", u, AmountOf[amount], keys'[u])
    /\ UNCHANGED <<sessions, participants, clock, phase>>

\* !qrecords with a well-formed record: the DM is credited DmKeys.
qrecords_ok(u) ==
    /\ keys' = [keys EXCEPT ![u] = keys_add(@, DmKeys)]
    /\ keys'[u].lifetime <= MaxLedger
    /\ response' = Reply("Quest Name")
    /\ UNCHANGED <<sessions, participants, clock, phase>>

\* !qrecords with a record it cannot read: rejected before any credit.
qrecords_rejected(u) ==
    /\ response' = Reply("Could not parse command.")
    /\ UNCHANGED <<sessions, participants, keys, clock, phase>>

\* A closed session whose first participant is capped and has earned
\* zero or one hour, so that End credits keys too.
InitKeys ==
    \E s \in {0, 3600} :
        /\ sessions = [m \in Mids |->
                          [posted |-> TRUE, state |-> STOPPED, started_at |-> NULL,
                           run_seconds |-> s]]
        /\ participants = [pid \in Pids |->
                              IF pid[2] = 1
                              THEN [joined |-> TRUE, character |-> "Bren", level |-> 20,
                                    seconds |-> s, last_tick |-> NULL, capped |-> 1,
                                    xp_dip |-> 1, gp_dip |-> 1, lock |-> "free"]
                              ELSE NoParticipant]
        /\ keys = [u \in Uids |-> NoKeys]
        /\ clock = s
        /\ response = Reply("")
        /\ phase = [pid \in Pids |-> "none"]

NextKeys ==
    \/ \E u \in Uids : key_show(u)
    \/ \E u \in Uids, amount \in Amounts : key_usage(u, amount)
    \/ \E u \in Uids, amount \in Amounts : key_nothing(u, amount)
    \/ \E u \in Uids, amount \in Amounts : key_credit(u, amount)
    \/ \E u \in Uids, amount \in Amounts : key_debit(u, amount)
    \/ \E u \in Uids : qrecords_ok(u)
    \/ \E u \in Uids : qrecords_rejected(u)
    \/ \E m \in Posted : end_idle(m)

SpecKeys == InitKeys /\ [][NextKeys]_vars

\* C23: over any sequence of credits and debits the current balance is never
\* negative and a debit larger than the balance sets it to 0; the lifetime
\* total never decreases and changes only by a credit of a positive amount,
\* which adds the same amount to both; a debit or an amount of zero leaves the
\* lifetime total unchanged.
C23_LedgerInvariants ==
    [][\A u \in Uids :
          /\ keys'[u].current >= 0
          /\ keys'[u].lifetime >= keys[u].lifetime
          /\ keys'[u].lifetime # keys[u].lifetime =>
                 \E a \in 1..MaxLedger :
                     keys'[u] = [current |-> keys[u].current + a,
                                 lifetime |-> keys[u].lifetime + a]
          /\ \A amount \in Amounts :
                 /\ key_debit(u, amount) =>
                        /\ keys'[u].lifetime = keys[u].lifetime
                        /\ keys'[u].current =
                               IF abs(AmountOf[amount]) > keys[u].current
                               THEN 0
                               ELSE keys[u].current - abs(AmountOf[amount])
                 /\ key_nothing(u, amount) \/ key_usage(u, amount) => keys' = keys
      ]_vars

C23_Witness ==
    \E u \in Uids :
        /\ response.msg = "Keys Earned"
        /\ u \in DOMAIN response.lines
        /\ response.lines[u].delta = 0 - 20
        /\ keys[u].current = 0
        /\ keys[u].lifetime = 10

-----------------------------------------------------------------------------
(* Session elapsed time *)

\* session_elapsed_seconds for a given reading of the clock.
session_elapsed_seconds(s, now) ==
    IF s.state = RUNNING /\ s.started_at # NULL
    THEN s.run_seconds + Max0(now - s.started_at)
    ELSE s.run_seconds

\* C28: the session's elapsed time is never negative and never decreases, stays
\* constant while the session is Paused or Stopped, and is the same just
\* before and just after the instant of each Start, Pause, Resume and End.
C28_ElapsedMonotone ==
    [][\A m \in Mids :
          LET before  == session_elapsed_seconds(sessions[m], clock)
              instant == session_elapsed_seconds(sessions[m], clock')
              after   == session_elapsed_seconds(sessions'[m], clock')
          IN  /\ after >= 0
              /\ after >= before
              /\ after = instant
              /\ sessions[m].state # RUNNING => after = before
      ]_vars

C28_Witness ==
    \E m \in Mids :
        /\ sessions[m].state = PAUSED
        /\ sessions[m].run_seconds = TimeUnit
        /\ clock = 3 * TimeUnit
        /\ session_elapsed_seconds(sessions[m], clock) = TimeUnit

-----------------------------------------------------------------------------
(* Unsettled time *)

\* The time a participant has earned at a given instant: the settled seconds
\* plus the time since last_tick while the row is armed.
effective_seconds(p, now) ==
    IF p.last_tick # NULL THEN p.seconds + Max0(now - p.last_tick) ELSE p.seconds

\* C30: no operation loses unsettled time: at the instant of any operation the
\* time a participant has earned is not less after it than before it, in
\* particular for a Rejoin or a Join edit of a participant who is already
\* armed in a Running session.
C30_NoTimeLost ==
    [][\A m \in Mids : \A u \in Uids :
          (rejoin_running(m, u) \/ \E form \in Forms : join_ok(m, u, form)) =>
              effective_seconds(participants'[<<m, u>>], clock') >=
                  effective_seconds(participants[<<m, u>>], clock')
      ]_vars

-----------------------------------------------------------------------------
(* A clock that may step back *)

\* The stored totals stay within the bound of the model.
SkewBounded ==
    /\ \A pid \in Pids : participants[pid].seconds <= MaxSeconds
    /\ \A m \in Mids : sessions[m].run_seconds <= MaxSeconds

\* One user's sign-in, and every handler that settles or arms, with each
\* time.time() free to return any instant, earlier ones included.
NextSkew ==
    \/ rpbegin(1)
    \/ \E now \in Times : ticker_loop_at(now) /\ SkewBounded'
    \/ \E now \in Times : ~Row(1, 1).joined /\ get_session(1).posted
                            /\ join_ok_at(1, 1, TraceForm, now)
    \/ \E now \in Times : get_session(1).posted /\ leave_ok_at(1, 1, now) /\ SkewBounded'
    \/ get_session(1).posted /\ rejoin_idle(1, 1)
    \/ \E now \in Times : get_session(1).posted /\ start_ok_at(1, now)
    \/ \E tick_now \in Times, now \in Times :
           get_session(1).posted /\ pause_ok_at(1, tick_now, now) /\ SkewBounded'
    \/ \E now \in Times : get_session(1).posted /\ resume_ok_at(1, now)
    \/ \E tick_now \in Times, now \in Times :
           end_running_at(1, tick_now, now) /\ SkewBounded'
    \/ end_idle(1)

SpecSkew == Init /\ [][NextSkew]_vars

\* C29: every settlement adds max(0, now - last_tick): under tick, Leave,
\* Pause and End the stored seconds are never negative and never decrease,
\* and a settlement whose clock value is earlier than the stored last_tick
\* adds nothing.
C29_SettlementNeverNegative ==
    [][\A pid \in Pids :
          LET p == participants[pid]
              q == participants'[pid]
          IN  /\ q.seconds >= 0
              /\ q.seconds >= p.seconds
              /\ \A now \in Times :
                     /\ (p.last_tick # NULL /\ now < p.last_tick)
                     /\ \/ ticker_loop_at(now)
                        \/ leave_ok_at(pid[1], pid[2], now)
                        \/ \E t \in Times : pause_ok_at(pid[1], now, t)
                        \/ \E t \in Times : end_running_at(pid[1], now, t)
                     => q.seconds = p.seconds
      ]_vars

\* A running session started at 900 whose armed row carries 900 settled
\* seconds and last_tick 0: its last settlement read a clock earlier than the
\* last_tick it replaced.
C29_Witness ==
    /\ get_session(1).state = RUNNING
    /\ get_session(1).started_at = TimeUnit
    /\ Row(1, 1).last_tick = 0
    /\ Row(1, 1).seconds = TimeUnit
    /\ clock = 0

-----------------------------------------------------------------------------
(* Two trackers *)

\* Two tracker messages, each with its own session.
TwoMids == {1, 2}

InitTwo ==
    /\ sessions = [m \in TwoMids |-> NoSession]
    /\ participants = [pid \in TwoMids \X Uids |-> NoParticipant]
    /\ keys = [u \in Uids |-> NoKeys]
    /\ clock = 0
    /\ response = Reply("")
    /\ phase = [pid \in TwoMids \X Uids |-> "none"]

\* The buttons of one tracker, pressed by user 1.
ActionOn(m) ==
    \/ start_already_running(m)
    \/ start_ok(m)
    \/ pause_not_running(m)
    \/ pause_ok(m)
    \/ resume_not_paused(m)
    \/ resume_ok(m)
    \/ end_running(m)
    \/ end_idle(m)
    \/ leave_not_joined(m, 1)
    \/ leave_ok(m, 1)
    \/ rejoin_not_joined(m, 1)
    \/ rejoin_idle(m, 1)
    \/ rejoin_running(m, 1)
    \/ join_ok(m, 1, TraceForm)

NextTwo ==
    \/ \E m \in TwoMids : rpbegin(m)
    \/ ticker_loop
    \/ \E m \in TwoMids : sessions[m].posted /\ ActionOn(m)

SpecTwo == InitTwo /\ [][NextTwo]_vars

\* C27: an action on one session leaves every other session's record and the
\* seconds and last_tick of all of its participants unchanged.
C27_SessionsIndependent ==
    [][\A a \in TwoMids : \A b \in TwoMids \ {a} :
          sessions[a].posted /\ ActionOn(a) =>
              /\ sessions'[b] = sessions[b]
              /\ \A u \in Uids :
                     /\ participants'[<<b, u>>].seconds = participants[<<b, u>>].seconds
                     /\ participants'[<<b, u>>].last_tick = participants[<<b, u>>].last_tick
      ]_vars

-----------------------------------------------------------------------------
(* Store failures during Pause and End *)

\* What the user sees when an exception leaves a handler: the bot sends no
\* reply and the interaction is reported as failed.
StoreFailure == Reply("This interaction failed")

\* pause_cb when the store fails in its own transaction: tick_running_sessions
\* has committed, the UPDATE of the session and the disarming are rolled back.
pause_fails_at_update(m) ==
    /\ get_session(m).state = RUNNING
    /\ get_session(m).started_at # NULL
    /\ \E tick_now \in ClockReads(clock) : \E now \in ClockReads(tick_now) :
        /\ clock' = now
        /\ participants' = TickParticipants(sessions, participants, tick_now)
    /\ response' = StoreFailure
    /\ UNCHANGED <<sessions, keys, phase>>

\* end_session_and_post_rewards on a running session when the store fails in
\* the transaction that stops it: the final tick has committed.
end_fails_at_update(m) ==
    /\ get_session(m).posted
    /\ get_session(m).state = RUNNING
    /\ get_session(m).started_at # NULL
    /\ \E tick_now \in ClockReads(clock) : \E now \in ClockReads(tick_now) :
        /\ clock' = now
        /\ participants' = TickParticipants(sessions, participants, tick_now)
    /\ response' = StoreFailure
    /\ UNCHANGED <<sessions, keys, phase>>

\* The keys_add calls that committed before the call for user k: the loop
\* follows ORDER BY user_id.
CreditKeysBefore(ledger, parts, m, k) ==
    [u \in DOMAIN ledger |-> IF u < k THEN CreditKeys(ledger, parts, m)[u] ELSE ledger[u]]

\* end_session_and_post_rewards when the store fails in the keys_add call for
\* the capped participant k: the session is stopped and disarmed, the earlier
\* credits are committed, no rewards message is sent.
end_fails_at_keys(m, k) ==
    /\ get_session(m).posted
    /\ \E tick_now \in ClockReads(clock) : \E now \in ClockReads(tick_now) :
        LET s == get_session(m)
            running == s.state = RUNNING /\ s.started_at # NULL
            run == IF running THEN s.run_seconds + Max0(now - s.started_at)
                   ELSE s.run_seconds
            parts == DisarmRoster(IF running
                                  THEN TickParticipants(sessions, participants, tick_now)
                                  ELSE participants, m)
        IN  /\ running \/ (tick_now = clock /\ now = clock)
            /\ parts[<<m, k>>].joined
            /\ parts[<<m, k>>].capped # 0
            /\ reward_hours(parts[<<m, k>>].seconds) > 0
            /\ clock' = now
            /\ sessions' = [sessions EXCEPT ![m] = StoppedRow(s, run)]
            /\ participants' = parts
            /\ keys' = CreditKeysBefore(keys, parts, m, k)
    /\ \A u \in DOMAIN keys : keys'[u].lifetime <= MaxKeys
    /\ phase' = PhaseOf(m, "none")
    /\ response' = StoreFailure

NextFailure ==
    \/ Next
    \/ \E m \in Posted : pause_fails_at_update(m)
    \/ \E m \in Posted : end_fails_at_update(m)
    \/ \E m \in Posted, k \in Uids : end_fails_at_keys(m, k)

SpecFailure == Init /\ [][NextFailure]_vars

\* C26: a Pause or an End during which the store fails is applied entirely or
\* not at all: the step either changes no stored row or is a complete Pause or
\* a complete End.
C26_AllOrNothing ==
    [][\A m \in Posted :
          (\/ pause_fails_at_update(m)
           \/ end_fails_at_update(m)
           \/ \E k \in Uids : end_fails_at_keys(m, k))
          => \/ sessions' = sessions /\ participants' = participants /\ keys' = keys
             \/ sessions'[m].state = PAUSED /\ participants' = DisarmRoster(participants', m)
             \/ /\ sessions'[m].state = STOPPED
                /\ participants' = DisarmRoster(participants', m)
                /\ keys' = CreditKeys(keys, participants', m)
      ]_vars

-----------------------------------------------------------------------------
(* Handlers that suspend inside an open transaction *)

\* The users whose row of session m is locked by a suspended rejoin_cb.
Held(m) == {u \in Uids : participants[<<m, u>>].lock = "held"}

\* A statement is waiting for a row lock. It runs synchronously on the event
\* loop's only thread, so no coroutine runs again, the lock's holder included.
Blocked == \E pid \in DOMAIN participants : participants[pid].lock = "waited"

\* A statement that writes every row of session m meets the locked ones.
WaitRoster(parts, m) ==
    [pid \in DOMAIN parts |->
        IF pid[1] = m /\ parts[pid].lock = "held"
        THEN [parts[pid] EXCEPT !.lock = "waited"]
        ELSE parts[pid]]

\* RPView.rejoin_cb while the session is not running, up to its first await:
\* the UPDATE has run inside the open transaction, the reply is being sent.
rejoin_idle_begin(m, u) ==
    /\ ~Blocked
    /\ participants[<<m, u>>].joined
    /\ participants[<<m, u>>].lock = "free"
    /\ get_session(m).state # RUNNING
    /\ participants' = [participants EXCEPT ![<<m, u>>].lock = "held"]
    /\ response' = Reply("You're marked present, but the session isn't running.")
    /\ UNCHANGED <<sessions, keys, clock, phase>>

\* RPView.rejoin_cb resumed after its awaits: leaving the with block commits.
rejoin_idle_commit(m, u) ==
    /\ ~Blocked
    /\ participants[<<m, u>>].lock = "held"
    /\ participants' = [participants EXCEPT ![<<m, u>>].last_tick = NULL,
                                            ![<<m, u>>].lock = "free"]
    /\ phase' = [phase EXCEPT ![<<m, u>>] = "none"]
    /\ UNCHANGED <<sessions, keys, clock, response>>

\* RPView.start_cb reaching its UPDATE of the participants while a row of the
\* session is locked.
start_blocks(m) ==
    /\ ~Blocked
    /\ Held(m) # {}
    /\ get_session(m).state # RUNNING
    /\ \E now \in ClockReads(clock) : clock' = now
    /\ participants' = WaitRoster(participants, m)
    /\ UNCHANGED <<sessions, keys, response, phase>>

\* RPView.resume_cb reaching its UPDATE of the participants while a row of the
\* session is locked.
resume_blocks(m) ==
    /\ ~Blocked
    /\ Held(m) # {}
    /\ get_session(m).state = PAUSED
    /\ \E now \in ClockReads(clock) : clock' = now
    /\ participants' = WaitRoster(participants, m)
    /\ UNCHANGED <<sessions, keys, response, phase>>

\* end_session_and_post_rewards reaching its UPDATE of the participants while
\* a row of the session is locked.
end_blocks(m) ==
    /\ ~Blocked
    /\ Held(m) # {}
    /\ get_session(m).posted
    /\ participants' = WaitRoster(participants, m)
    /\ UNCHANGED <<sessions, keys, clock, response, phase>>

\* RPView.leave_cb reaching its UPDATE while the user's row is locked.
leave_blocks(m, u) ==
    /\ ~Blocked
    /\ participants[<<m, u>>].lock = "held"
    /\ \E now \in ClockReads(clock) : clock' = now
    /\ participants' = [participants EXCEPT ![<<m, u>>].lock = "waited"]
    /\ UNCHANGED <<sessions, keys, response, phase>>

\* JoinModal.on_submit reaching its upsert while the user's row is locked.
join_blocks(m, u, form) ==
    /\ ~Blocked
    /\ form.level \in DOMAIN IntOf
    /\ 1 <= IntOf[form.level] /\ IntOf[form.level] <= 20
    /\ Strip(form.name) # ""
    /\ participants[<<m, u>>].lock = "held"
    /\ \E now \in ClockReads(clock) : clock' = now
    /\ participants' = [participants EXCEPT ![<<m, u>>].lock = "waited"]
    /\ UNCHANGED <<sessions, keys, response, phase>>

\* RPView.rejoin_cb pressed again, reaching its UPDATE while the row is locked.
rejoin_blocks(m, u) ==
    /\ ~Blocked
    /\ participants[<<m, u>>].lock = "held"
    /\ participants' = [participants EXCEPT ![<<m, u>>].lock = "waited"]
    /\ UNCHANGED <<sessions, keys, clock, response, phase>>

\* The handlers as coroutines of one event loop: each runs to its next await,
\* and a statement that needs a locked row stops the loop.
NextAwait ==
    \/ \E m \in Mids : ~Blocked /\ rpbegin(m)
    \/ ~Blocked /\ ticker_loop
    \/ \E m \in Posted : ~Blocked /\ Held(m) = {} /\ start_ok(m)
    \/ \E m \in Posted : ~Blocked /\ Held(m) = {} /\ pause_ok(m)
    \/ \E m \in Posted : ~Blocked /\ Held(m) = {} /\ resume_ok(m)
    \/ \E m \in Posted : ~Blocked /\ Held(m) = {} /\ end_running(m)
    \/ \E m \in Posted : ~Blocked /\ Held(m) = {} /\ end_idle(m)
    \/ \E m \in Posted, u \in Uids : ~Blocked /\ u \notin Held(m) /\ leave_ok(m, u)
    \/ \E m \in Posted, u \in Uids : ~Blocked /\ u \notin Held(m) /\ rejoin_running(m, u)
    \/ \E m \in Posted, u \in Uids : ~Blocked /\ u \notin Held(m) /\ join_ok(m, u, TraceForm)
    \/ \E m \in Posted, u \in Uids : rejoin_idle_begin(m, u)
    \/ \E m \in Posted, u \in Uids : rejoin_idle_commit(m, u)
    \/ \E m \in Posted : start_blocks(m)
    \/ \E m \in Posted : resume_blocks(m)
    \/ \E m \in Posted : end_blocks(m)
    \/ \E m \in Posted, u \in Uids : leave_blocks(m, u)
    \/ \E m \in Posted, u \in Uids : join_blocks(m, u, TraceForm)
    \/ \E m \in Posted, u \in Uids : rejoin_blocks(m, u)

SpecAwait == Init /\ [][NextAwait]_vars

\* C24: the mutations of one session are serialized: while a handler that has
\* read the session and written a row has not yet committed, no other write
\* to the session or to its participants is applied.
C24_MutationsSerialized ==
    [][\A m \in Mids : \A u \in Uids :
          (participants[<<m, u>>].lock = "held" /\ participants'[<<m, u>>].lock = "held")
          => /\ sessions'[m] = sessions[m]
             /\ \A v \in Uids : participants'[<<m, v>>] = participants[<<m, v>>]
      ]_vars

\* C25: no operation blocks forever: no statement is ever left waiting for a
\* row lock whose holder cannot run again.
C25_NoOperationBlocked == ~Blocked

-----------------------------------------------------------------------------
(* Keys over several End calls, and participants against the session clock *)

\* C31: the keys of a session are credited once: after any End, repeated Ends
\* and Start/End after a previous End included, the keys credited to a capped
\* participant are reward_hours of the seconds accrued, not the sum over the
\* End calls.
C31_KeysCreditedOnce ==
    [][\A m \in Mids :
          end_idle(m) \/ end_running(m) =>
              \A u \in Uids :
                  LET q == participants'[<<m, u>>]
                  IN  q.joined /\ q.capped # 0 =>
                          keys'[u].lifetime = reward_hours(q.seconds)
      ]_vars

\* C32: in every state the time a participant has earned is at most the
\* session's elapsed time: nobody is credited more time than the session has
\* been Running.
C32_ParticipantWithinSession ==
    \A m \in Mids : \A u \in Uids :
        Row(m, u).joined =>
            effective_seconds(Row(m, u), clock) <=
                session_elapsed_seconds(get_session(m), clock)

\* A participant who left a running session and whose settled time has
\* fallen behind a session that kept running.
C32_Witness ==
    \E m \in Mids, u \in Uids :
        /\ get_session(m).state = RUNNING
        /\ Row(m, u).joined
        /\ Row(m, u).last_tick = NULL
        /\ Row(m, u).seconds = TimeUnit
        /\ session_elapsed_seconds(get_session(m), clock) = 3 * TimeUnit

=============================================================================
